---- MODULE Spec2Model ----
(***************************************************************************)
(* Model of PlanetariumWarper/Program.cpp: the Program object (its exit    *)
(* flag m_exit and its shader wrapper m_shader), the configuration record  *)
(* Initialize writes, and the graphics context the operations call into.   *)
(* The graphics context is a recording backend: it keeps the bound shader  *)
(* program and the calls the operation in progress has issued, in order.   *)
(* Every operation of Program is an operator from a state record to a      *)
(* state record; an action applies one operation and commits its result.   *)
(***************************************************************************)
EXTENDS Integers, Sequences, FiniteSets, TLC

VARIABLES
    m_exit,         \* Program::m_exit
    m_shader,       \* Program::m_shader: stages loaded, attribute bound, linked
    config,         \* the caller's ProgramConfiguration record
    activeProgram,  \* the shader program bound in the graphics context (0: none)
    glCalls,        \* the graphics calls issued by the last operation, in order
    lastOp,         \* the last operation called on the Program
    inputState,     \* the InputState given to the last Update: the keys pressed
    ret,            \* what the last operation returned ("void" when nothing)
    escSeen,        \* some Update so far was given escape pressed
    nUpdate,        \* Update calls so far
    nExit,          \* Exit invocations so far (direct or from Update)
    nUnload,        \* Unload executions so far (direct or from Exit)
    nDirectExit,    \* Exit calls made by the caller directly
    nDirectUnload,  \* Unload calls made by the caller directly
    pc,             \* the harness's position ("free": no harness order)
    frame           \* frames the harness has started

vars == <<m_exit, m_shader, config, activeProgram, glCalls, lastOp, inputState, ret,
          escSeen, nUpdate, nExit, nUnload, nDirectExit, nDirectUnload, pc, frame>>

\* ------------------------------------------------------------ bounds
MaxCalls == 3
MaxFrames == 3

\* --------------------------------------------------------- constants
WINDOW_WIDTH == 512
WINDOW_HEIGHT == 512

\* The handle Shader::GetProgramHandle returns: any non-zero name.
ProgramHandle == 1

\* Contents a configuration record may hold before Initialize.
Titles == {"", "Planetarium Warper"}
Sizes == {0, 512, 640}
Versions == {0, 2}
Configs == [title : Titles, width : Sizes, height : Sizes,
            glMajor : Versions, glMinor : Versions]

\* The quad of Program::Draw, as the floats are listed in the array.
quad == <<-1, 1, -1, -1, 1, 1, 1, -1>>

\* ------------------------------------------------ collaborators
\* InputState: the keys of the snapshot that are pressed.
ESCAPE == "ESCAPE"
InputKey == {ESCAPE, "SPACE"}
InputStates == SUBSET InputKey
IsKeyPressed(in, key) == key \in in

\* ProgramConfiguration's setters.
SetTitle(c, t) == [c EXCEPT !.title = t]
SetWindowWidth(c, w) == [c EXCEPT !.width = w]
SetWindowHeight(c, h) == [c EXCEPT !.height = h]
SetGLMajorVersion(c, v) == [c EXCEPT !.glMajor = v]
SetGLMinorVersion(c, v) == [c EXCEPT !.glMinor = v]

\* One call into the graphics API: recorded, and glUseProgram rebinds.
GL(s, call) ==
    [s EXCEPT !.glCalls = Append(@, call),
              !.activeProgram = IF call[1] = "glUseProgram" THEN call[2] ELSE @]

\* The shader wrapper.
LoadShader(s, file, stage) ==
    [s EXCEPT !.glCalls = Append(@, <<"Shader::LoadShader", file, stage>>),
              !.m_shader.stages = @ \cup {stage}]
Link(s) ==
    [s EXCEPT !.glCalls = Append(@, <<"Shader::Link">>),
              !.m_shader.linked = TRUE]
Enable(s) ==
    [s EXCEPT !.glCalls = Append(@, <<"Shader::Enable">>),
              !.activeProgram = ProgramHandle]
Disable(s) ==
    [s EXCEPT !.glCalls = Append(@, <<"Shader::Disable">>),
              !.activeProgram = 0]

\* ------------------------------------------------------- Program
\* Program::Program
Program ==
    [m_exit |-> FALSE, m_shader |-> [stages |-> {}, attrib0 |-> "", linked |-> FALSE]]

\* Initialize with the two version numbers exchanged.
InitializeVersionsSwapped(s) ==
    LET c0 == s.config
        c1 == SetTitle(c0, "Planetarium Warper")
        c2 == SetWindowWidth(c1, WINDOW_WIDTH)
        c3 == SetWindowHeight(c2, WINDOW_HEIGHT)
        c4 == SetGLMajorVersion(c3, 0)
        c5 == SetGLMinorVersion(c4, 2)
    IN [s EXCEPT !.config = c5]

\* Program::Initialize
Initialize(s) ==
    LET c0 == s.config
        c1 == SetTitle(c0, "Planetarium Warper")
        c2 == SetWindowWidth(c1, WINDOW_WIDTH)
        c3 == SetWindowHeight(c2, WINDOW_HEIGHT)
        c4 == SetGLMajorVersion(c3, 2)
        c5 == SetGLMinorVersion(c4, 0)
    IN [s EXCEPT !.config = c5]

\* Load that also puts the exit flag back to its constructed value.
LoadResetsExit(s) ==
    LET s1 == GL(s, <<"glewInit">>)
        s2 == GL(s1, <<"glEnable", "GL_DEBUG_OUTPUT_SYNCHRONOUS">>)
        s3 == GL(s2, <<"glDebugMessageControl">>)
        s4 == GL(s3, <<"glDebugMessageCallback", "ETB_GL_ERROR_CALLBACK">>)
        s5 == LoadShader(s4, "FullscreenQuad.vert", "GL_VERTEX_SHADER")
        s6 == LoadShader(s5, "FullscreenQuad.frag", "GL_FRAGMENT_SHADER")
        s7 == GL(s6, <<"glBindAttribLocation", ProgramHandle, 0, "vPosition">>)
        s8 == [s7 EXCEPT !.m_shader.attrib0 = "vPosition", !.m_exit = FALSE]
    IN Link(s8)

\* Program::Load
Load(s) ==
    LET s1 == GL(s, <<"glewInit">>)
        s2 == GL(s1, <<"glEnable", "GL_DEBUG_OUTPUT_SYNCHRONOUS">>)
        s3 == GL(s2, <<"glDebugMessageControl">>)
        s4 == GL(s3, <<"glDebugMessageCallback", "ETB_GL_ERROR_CALLBACK">>)
        s5 == LoadShader(s4, "FullscreenQuad.vert", "GL_VERTEX_SHADER")
        s6 == LoadShader(s5, "FullscreenQuad.frag", "GL_FRAGMENT_SHADER")
        s7 == GL(s6, <<"glBindAttribLocation", ProgramHandle, 0, "vPosition">>)
        s8 == [s7 EXCEPT !.m_shader.attrib0 = "vPosition"]
    IN Link(s8)

\* Unload that also sets the exit flag.
UnloadSetsExit(s) ==
    LET s1 == GL(s, <<"glUseProgram", 0>>)
    IN [s1 EXCEPT !.nUnload = @ + 1, !.m_exit = TRUE]

\* Program::Unload (nUnload counts its executions)
Unload(s) ==
    LET s1 == GL(s, <<"glUseProgram", 0>>)
    IN [s1 EXCEPT !.nUnload = @ + 1]

\* Exit that flips the exit flag instead of setting it.
ExitToggles(s) ==
    LET s1 == [s EXCEPT !.m_exit = ~@, !.nExit = @ + 1]
    IN Unload(s1)

\* Exit that tears down only the first time.
ExitUnloadsOnce(s) ==
    LET s1 == [s EXCEPT !.m_exit = TRUE, !.nExit = @ + 1]
    IN IF s.m_exit THEN s1
       ELSE Unload(s1)

\* Program::Exit (nExit counts its invocations)
Exit(s) ==
    LET s1 == [s EXCEPT !.m_exit = TRUE, !.nExit = @ + 1]
    IN Unload(s1)

\* Update with the key test inverted.
UpdateInverted(s, in) ==
    IF ~IsKeyPressed(in, ESCAPE)
    THEN Exit(s)
    ELSE s

\* Update that exits on any key.
UpdateAnyKey(s, in) ==
    IF in # {}
    THEN Exit(s)
    ELSE s

\* Program::Update
Update(s, in) ==
    IF IsKeyPressed(in, ESCAPE) THEN Exit(s) ELSE s

\* Draw submitting 3 vertices.
DrawThreeVertices(s) ==
    LET s1 == GL(s, <<"glViewport", 0, 0, WINDOW_WIDTH, WINDOW_HEIGHT>>)
        s2 == GL(s1, <<"glClearColor", 0, 0, 0, 1>>)
        s3 == GL(s2, <<"glColorMask", TRUE, TRUE, TRUE, FALSE>>)
        s4 == GL(s3, <<"glClear", "GL_COLOR_BUFFER_BIT">>)
        s5 == Enable(s4)
        s6 == GL(s5, <<"glVertexAttribPointer", 0, 2, "GL_FLOAT", FALSE, 0, quad>>)
        s7 == GL(s6, <<"glEnableVertexAttribArray", 0>>)
        s8 == GL(s7, <<"glDrawArrays", "GL_TRIANGLE_STRIP", 0, 3>>)
    IN Disable(s8)

\* Draw disabling the shader program before the submission.
DrawDisablesEarly(s) ==
    LET s1 == GL(s, <<"glViewport", 0, 0, WINDOW_WIDTH, WINDOW_HEIGHT>>)
        s2 == GL(s1, <<"glClearColor", 0, 0, 0, 1>>)
        s3 == GL(s2, <<"glColorMask", TRUE, TRUE, TRUE, FALSE>>)
        s4 == GL(s3, <<"glClear", "GL_COLOR_BUFFER_BIT">>)
        s5 == Enable(s4)
        s6 == GL(s5, <<"glVertexAttribPointer", 0, 2, "GL_FLOAT", FALSE, 0, quad>>)
        s7 == GL(s6, <<"glEnableVertexAttribArray", 0>>)
        s8 == Disable(s7)
    IN GL(s8, <<"glDrawArrays", "GL_TRIANGLE_STRIP", 0, 4>>)

\* Program::Draw
Draw(s) ==
    LET s1 == GL(s, <<"glViewport", 0, 0, WINDOW_WIDTH, WINDOW_HEIGHT>>)
        s2 == GL(s1, <<"glClearColor", 0, 0, 0, 1>>)
        s3 == GL(s2, <<"glColorMask", TRUE, TRUE, TRUE, FALSE>>)
        s4 == GL(s3, <<"glClear", "GL_COLOR_BUFFER_BIT">>)
        s5 == Enable(s4)
        s6 == GL(s5, <<"glVertexAttribPointer", 0, 2, "GL_FLOAT", FALSE, 0, quad>>)
        s7 == GL(s6, <<"glEnableVertexAttribArray", 0>>)
        s8 == GL(s7, <<"glDrawArrays", "GL_TRIANGLE_STRIP", 0, 4>>)
    IN Disable(s8)

\* ReadyToExit returning the negation of the flag.
ReadyToExitNegated(s) == ~s.m_exit

\* Program::ReadyToExit
ReadyToExit(s) == s.m_exit

\* ------------------------------------------------------- actions
\* The state an operation starts from: no call issued yet.
Before ==
    [m_exit |-> m_exit, m_shader |-> m_shader, config |-> config,
     activeProgram |-> activeProgram, glCalls |-> <<>>,
     nExit |-> nExit, nUnload |-> nUnload]

\* The state an operation leaves behind.
Commit(s, op, r) ==
    /\ m_exit' = s.m_exit
    /\ m_shader' = s.m_shader
    /\ config' = s.config
    /\ activeProgram' = s.activeProgram
    /\ glCalls' = s.glCalls
    /\ nExit' = s.nExit
    /\ nUnload' = s.nUnload
    /\ lastOp' = op
    /\ ret' = r

InitProgram ==
    /\ m_exit = Program.m_exit
    /\ m_shader = Program.m_shader
    /\ config \in Configs
    /\ activeProgram = 0
    /\ glCalls = <<>>
    /\ lastOp = "Program"
    /\ inputState = {}
    /\ ret = "void"
    /\ escSeen = FALSE
    /\ nUpdate = 0
    /\ nExit = 0
    /\ nUnload = 0
    /\ nDirectExit = 0
    /\ nDirectUnload = 0
    /\ frame = 0

\* Any caller: the operations in any order.
Init == InitProgram /\ pc = "free"

CallInitialize ==
    /\ Commit(Initialize(Before), "Initialize", "void")
    /\ UNCHANGED <<inputState, escSeen, nUpdate, nDirectExit, nDirectUnload, pc, frame>>

CallLoad ==
    /\ Commit(Load(Before), "Load", "void")
    /\ UNCHANGED <<inputState, escSeen, nUpdate, nDirectExit, nDirectUnload, pc, frame>>

CallUpdate ==
    \E in \in InputStates :
        /\ nUpdate < MaxCalls
        /\ nUnload < MaxCalls
        /\ Commit(Update(Before, in), "Update", "void")
        /\ inputState' = in
        /\ escSeen' = (escSeen \/ IsKeyPressed(in, ESCAPE))
        /\ nUpdate' = nUpdate + 1
        /\ UNCHANGED <<nDirectExit, nDirectUnload, pc, frame>>

CallDraw ==
    /\ Commit(Draw(Before), "Draw", "void")
    /\ UNCHANGED <<inputState, escSeen, nUpdate, nDirectExit, nDirectUnload, pc, frame>>

CallReadyToExit ==
    /\ Commit(Before, "ReadyToExit", ReadyToExit(Before))
    /\ UNCHANGED <<inputState, escSeen, nUpdate, nDirectExit, nDirectUnload, pc, frame>>

CallExit ==
    /\ nUnload < MaxCalls
    /\ Commit(Exit(Before), "Exit", "void")
    /\ nDirectExit' = nDirectExit + 1
    /\ UNCHANGED <<inputState, escSeen, nUpdate, nDirectUnload, pc, frame>>

CallUnload ==
    /\ nUnload < MaxCalls
    /\ Commit(Unload(Before), "Unload", "void")
    /\ nDirectUnload' = nDirectUnload + 1
    /\ UNCHANGED <<inputState, escSeen, nUpdate, nDirectExit, pc, frame>>

Next ==
    \/ CallInitialize
    \/ CallLoad
    \/ CallUpdate
    \/ CallDraw
    \/ CallReadyToExit
    \/ CallExit
    \/ CallUnload

Spec == Init /\ [][Next]_vars

\* ------------------------------------------------------- harness
\* The host harness: Initialize, Load, then each frame Update, the
\* ReadyToExit check and Draw, and at the end Exit or Unload.
InitHarness == InitProgram /\ pc = "start"

HarnessInitialize ==
    /\ pc = "start"
    /\ Commit(Initialize(Before), "Initialize", "void")
    /\ pc' = "created"
    /\ UNCHANGED <<inputState, escSeen, nUpdate, nDirectExit, nDirectUnload, frame>>

HarnessLoad ==
    /\ pc = "created"
    /\ Commit(Load(Before), "Load", "void")
    /\ pc' = "update"
    /\ UNCHANGED <<inputState, escSeen, nUpdate, nDirectExit, nDirectUnload, frame>>

HarnessUpdate ==
    \E in \in InputStates :
        /\ pc = "update"
        /\ frame < MaxFrames
        /\ Commit(Update(Before, in), "Update", "void")
        /\ inputState' = in
        /\ escSeen' = (escSeen \/ IsKeyPressed(in, ESCAPE))
        /\ nUpdate' = nUpdate + 1
        /\ frame' = frame + 1
        /\ pc' = "check"
        /\ UNCHANGED <<nDirectExit, nDirectUnload>>

HarnessCheck ==
    /\ pc = "check"
    /\ Commit(Before, "ReadyToExit", ReadyToExit(Before))
    /\ pc' = IF ReadyToExit(Before) THEN "teardown" ELSE "draw"
    /\ UNCHANGED <<inputState, escSeen, nUpdate, nDirectExit, nDirectUnload, frame>>

HarnessDraw ==
    /\ pc = "draw"
    /\ Commit(Draw(Before), "Draw", "void")
    /\ pc' = "update"
    /\ UNCHANGED <<inputState, escSeen, nUpdate, nDirectExit, nDirectUnload, frame>>

HarnessExit ==
    /\ pc = "teardown"
    /\ Commit(Exit(Before), "Exit", "void")
    /\ nDirectExit' = nDirectExit + 1
    /\ pc' = "done"
    /\ UNCHANGED <<inputState, escSeen, nUpdate, nDirectUnload, frame>>

HarnessUnload ==
    /\ pc = "teardown"
    /\ Commit(Unload(Before), "Unload", "void")
    /\ nDirectUnload' = nDirectUnload + 1
    /\ pc' = "done"
    /\ UNCHANGED <<inputState, escSeen, nUpdate, nDirectExit, frame>>

NextHarness ==
    \/ HarnessInitialize
    \/ HarnessLoad
    \/ HarnessUpdate
    \/ HarnessCheck
    \/ HarnessDraw
    \/ HarnessExit
    \/ HarnessUnload

SpecHarness == InitHarness /\ [][NextHarness]_vars

\* ------------------------------------------------------- properties
\* The names of the calls the last operation issued, in order.
CallNames == [i \in 1..Len(glCalls) |-> glCalls[i][1]]

\* The calls of that name the last operation issued.
CallsOf(name) == {i \in 1..Len(glCalls) : glCalls[i][1] = name}

\* The position of the one call of that name (0 when there is not exactly one).
IndexOf(name) ==
    IF Cardinality(CallsOf(name)) = 1 THEN CHOOSE i \in CallsOf(name) : TRUE ELSE 0

\* What a caller can observe of the Program and the graphics context.
Observable == <<ReadyToExit(Before), activeProgram>>

\* C1: every Initialize leaves the configuration record with title
\* "Planetarium Warper", width 512, height 512, GL major 2 and GL minor 0,
\* whatever the record held before, and leaves the exit flag as it was.
C1_InitializeWritesConstants ==
    [][lastOp' = "Initialize" =>
        /\ config' = [title |-> "Planetarium Warper", width |-> 512, height |-> 512,
                      glMajor |-> 2, glMinor |-> 0]
        /\ m_exit' = m_exit]_vars

C1_Witness ==
    /\ lastOp = "Initialize"
    /\ m_exit
    /\ config.title = "Planetarium Warper"

\* C2: after an Update given escape pressed, ReadyToExit() returns true,
\* whatever came before.
C2_EscapeUpdateSetsExit ==
    (lastOp = "Update" /\ IsKeyPressed(inputState, ESCAPE)) => ReadyToExit(Before) = TRUE

C2_Witness ==
    /\ lastOp = "Update"
    /\ IsKeyPressed(inputState, ESCAPE)
    /\ nExit >= 2

\* C3: as long as no Update was given escape pressed and the caller made no
\* direct Exit call, ReadyToExit() returns false: right after construction
\* and after each such Update.
C3_IdleUpdatesKeepRunning ==
    (~escSeen /\ nDirectExit = 0) => ReadyToExit(Before) = FALSE

C3_Witness ==
    /\ lastOp = "Update"
    /\ nUpdate >= 2
    /\ ~escSeen
    /\ nDirectExit = 0

\* C4: every Exit leaves ReadyToExit() true and no shader program bound, and
\* an Exit that follows an Exit leaves what the caller observes as it was.
C4_ExitIdempotent ==
    [][lastOp' = "Exit" =>
        /\ Observable' = <<TRUE, 0>>
        /\ (lastOp = "Exit" => Observable' = Observable)]_vars

C4_Witness ==
    /\ lastOp = "Exit"
    /\ nDirectExit >= 2

\* C5: once ReadyToExit() is true it is true in every later state, whatever
\* operations follow.
C5_ExitNeverReverses ==
    [][ReadyToExit(Before) => ReadyToExit(Before)']_vars

C5_Witness ==
    /\ m_exit
    /\ lastOp = "Load"
    /\ nDirectUnload >= 1

\* C6: every Draw issues exactly one clear, of the colour buffer, and exactly
\* one draw submission, a triangle strip of 4 vertices from vertex 0, also
\* when the exit flag is set.
C6_DrawOneClearOneSubmission ==
    lastOp = "Draw" =>
        /\ Cardinality(CallsOf("glClear")) = 1
        /\ glCalls[IndexOf("glClear")] = <<"glClear", "GL_COLOR_BUFFER_BIT">>
        /\ Cardinality(CallsOf("glDrawArrays")) = 1
        /\ glCalls[IndexOf("glDrawArrays")] = <<"glDrawArrays", "GL_TRIANGLE_STRIP", 0, 4>>

C6_Witness ==
    /\ lastOp = "Draw"
    /\ m_exit

\* C7: under the harness no Draw is issued with the exit flag set, and once
\* the flag is set the harness is never again about to Update or Draw.
C7_NoDrawAfterExit ==
    /\ lastOp = "Draw" => ~m_exit
    /\ m_exit => pc \in {"check", "teardown", "done"}

C7_Witness ==
    /\ pc = "done"
    /\ m_exit
    /\ frame = 2

\* C8 as stated: under the harness Unload is performed at most once.
C8_UnloadAtMostOnce ==
    nUnload <= 1

\* C8 as amended: Unload is performed once per Exit invocation and once per
\* direct Unload call, which makes two in a completed harness run, and after
\* any of them no shader program is bound.
C8_UnloadPerExit ==
    /\ nUnload = nExit + nDirectUnload
    /\ pc = "done" => nUnload = 2
    /\ nUnload >= 1 => activeProgram = 0

C8_Witness ==
    /\ pc = "done"
    /\ nUnload = 2
    /\ nExit = 2

\* C9 as stated: in a Draw the clear precedes the alpha-mask change and the
\* vertex binding precedes the shader enable, within the order viewport,
\* clear, alpha mask, vertex binding, enable, submission, disable.
C9_DrawOrderAsStated ==
    lastOp = "Draw" =>
        /\ 0 < IndexOf("glViewport")
        /\ IndexOf("glViewport") < IndexOf("glClear")
        /\ IndexOf("glClear") < IndexOf("glColorMask")
        /\ IndexOf("glColorMask") < IndexOf("glVertexAttribPointer")
        /\ IndexOf("glVertexAttribPointer") < IndexOf("Shader::Enable")
        /\ IndexOf("Shader::Enable") < IndexOf("glDrawArrays")
        /\ IndexOf("glDrawArrays") < IndexOf("Shader::Disable")

\* C9 as amended: a Draw issues, in this order, the 512x512 viewport, the
\* opaque black clear colour, the alpha-mask change, the clear, the shader
\* enable, the binding of the quad as 2-component floats on slot 0, the
\* 4-vertex triangle-strip submission and the shader disable.
C9_DrawOrder ==
    lastOp = "Draw" =>
        glCalls = << <<"glViewport", 0, 0, 512, 512>>,
                     <<"glClearColor", 0, 0, 0, 1>>,
                     <<"glColorMask", TRUE, TRUE, TRUE, FALSE>>,
                     <<"glClear", "GL_COLOR_BUFFER_BIT">>,
                     <<"Shader::Enable">>,
                     <<"glVertexAttribPointer", 0, 2, "GL_FLOAT", FALSE, 0,
                       <<-1, 1, -1, -1, 1, 1, 1, -1>> >>,
                     <<"glEnableVertexAttribArray", 0>>,
                     <<"glDrawArrays", "GL_TRIANGLE_STRIP", 0, 4>>,
                     <<"Shader::Disable">> >>

C9_Witness ==
    /\ lastOp = "Draw"
    /\ Len(glCalls) = 9
    /\ m_shader.linked

\* C10: the exit flag changes only in an Exit or in an Update given escape
\* pressed, and ReadyToExit returns the flag and changes nothing of the
\* Program, the configuration or the graphics context.
C10_OnlyExitChangesFlag ==
    [][/\ m_exit' # m_exit =>
            \/ lastOp' = "Exit"
            \/ lastOp' = "Update" /\ IsKeyPressed(inputState', ESCAPE)
       /\ lastOp' = "ReadyToExit" =>
            \/ UNCHANGED vars
            \/ /\ ret' = m_exit
               /\ glCalls' = <<>>
               /\ UNCHANGED <<m_exit, m_shader, config, activeProgram>>]_vars

C10_Witness ==
    /\ lastOp = "Unload"
    /\ nDirectUnload >= 1
    /\ ~m_exit
    /\ nUpdate >= 1

====
